---------------------------- MODULE Spec2Model ----------------------------
(***************************************************************************)
(* Lifecounter (src/lifecounter.c): a two-player life counter for the      *)
(* Flipper Zero.  The model covers the session state (LifecounterModel),   *)
(* the four views and the transitions between them, the redraw timer of    *)
(* the main view, and the configuration file written by write_config and   *)
(* read by read_config.                                                    *)
(*                                                                         *)
(* Platform facts the program is written against (furi, gui):              *)
(*  - malloc returns zero-filled memory, so app->timer starts NULL and the *)
(*    view model's selected_player starts 0; neither is assigned by        *)
(*    app_alloc, and the furi_assert of view_main_enter_callback relies on *)
(*    the first;                                                           *)
(*  - the view dispatcher calls the current view's exit callback, makes    *)
(*    the target current and calls its enter callback; VIEW_NONE stops it; *)
(*  - a short or long Back press the view's input callback did not consume *)
(*    switches to the view its previous callback returns.                  *)
(***************************************************************************)
EXTENDS Integers, Sequences, FiniteSets, TLC

VARIABLES
    alive,          \* the process runs: between app_alloc and lifecounter_free
    view,           \* the view dispatcher's current view, "None" once stopped
    model,          \* LifecounterModel of view_main
    timer,          \* app->timer: NULL or a timer handle
    timers,         \* the FuriTimer objects allocated and not freed
    assert_failed,  \* furi_assert(app->timer == NULL) was reached with a timer
    queue,          \* custom events sent to the dispatcher and not yet handled
    file,           \* lifecounter.cfg in the application's data directory
    backlight,      \* the last backlight sequence sent to the notification service
    toggles,        \* parity of the Left/Right short presses handled since launch
    last            \* what the last handler did: name, result, redraws, tone

vars == <<alive, view, model, timer, timers, assert_failed, queue, file,
          backlight, toggles, last>>

-----------------------------------------------------------------------------
(* Bounds of the model *)

\* The counters are only stepped while they stay, taken together, this close
\* to one of the starting values.
MaxDrift == 1

\* Custom events that may wait in the dispatcher's queue.
MaxQueue == 1

\* Length of the texts the configuration file is started on when the load
\* is checked on every text.
MaxFileLen == 4

-----------------------------------------------------------------------------
(* Tables and enumerations *)

default_life_values == <<0, 10, 20, 40, 100>>

toggle_state_values == <<0, 1>>

\* sizeof(default_life_values): five 4-byte ints, passed to find_index as "size".
SizeofDefaultLifeValues == 20

\* sizeof(toggle_state_values): two 4-byte ints.
SizeofToggleStateValues == 8

NULL == 0

InputType == {"Press", "Release", "Short", "Long", "Repeat"}

InputKey == {"Up", "Down", "Right", "Left", "Ok", "Back"}

InputEvent == [type : InputType, key : InputKey]

\* Values an int read outside default_life_values may hold.
StrayInts == {-1}

-----------------------------------------------------------------------------
(* Text: "%d" and atoi, on sequences of one-character strings *)

Digits == <<"0", "1", "2", "3", "4", "5", "6", "7", "8", "9">>

LF == "\n"

IsSpace(c) == c \in {" ", LF, "\t", "\r"}

IsDigit(c) == \E d \in 1..10 : Digits[d] = c

DigitValue(c) == (CHOOSE d \in 1..10 : Digits[d] = c) - 1

RECURSIVE PrintUnsigned(_)
PrintUnsigned(n) ==
    IF n < 10 THEN <<Digits[n + 1]>>
    ELSE PrintUnsigned(n \div 10) \o <<Digits[(n % 10) + 1]>>

\* printf's %d
PrintD(n) == IF n < 0 THEN <<"-">> \o PrintUnsigned(-n) ELSE PrintUnsigned(n)

RECURSIVE SkipSpace(_)
SkipSpace(s) ==
    IF s # <<>> /\ IsSpace(Head(s)) THEN SkipSpace(Tail(s)) ELSE s

RECURSIVE ReadDigits(_, _)
ReadDigits(s, acc) ==
    IF s # <<>> /\ IsDigit(Head(s))
    THEN ReadDigits(Tail(s), 10 * acc + DigitValue(Head(s)))
    ELSE acc

\* atoi: leading white space, an optional sign, digits up to the first other
\* character; 0 when there is no digit.
atoi(str) ==
    LET s == SkipSpace(str) IN
    IF s # <<>> /\ Head(s) = "-" THEN -ReadDigits(Tail(s), 0)
    ELSE IF s # <<>> /\ Head(s) = "+" THEN ReadDigits(Tail(s), 0)
    ELSE ReadDigits(s, 0)

BoolToInt(b) == IF b THEN 1 ELSE 0

-----------------------------------------------------------------------------
(* The configuration file *)

NoFile == [exists |-> FALSE, data |-> <<>>]

FileOf(data) == [exists |-> TRUE, data |-> data]

\* A write_config that prints the sound flag before the backlight flag.
ConfigText_flags_swapped(m) ==
    PrintD(m.default_life) \o <<LF>>
        \o PrintD(BoolToInt(m.sound_on)) \o <<LF>>
        \o PrintD(BoolToInt(m.backlight_on)) \o <<LF>>

\* furi_string_printf(settings, "%d\n%d\n%d\n", life, backlight, sound)
ConfigText(m) ==
    PrintD(m.default_life) \o <<LF>>
        \o PrintD(BoolToInt(m.backlight_on)) \o <<LF>>
        \o PrintD(BoolToInt(m.sound_on)) \o <<LF>>

\* A write_config whose failed open has already emptied the file.
write_config_truncates(m, f, open_ok) ==
    IF open_ok THEN FileOf(ConfigText(m)) ELSE FileOf(<<>>)

\* A write_config that opens the file to append to it.
write_config_appends(m, f, open_ok) ==
    IF open_ok THEN FileOf(f.data \o ConfigText(m)) ELSE f

\* write_config: the file is opened FSOM_CREATE_ALWAYS and the text written;
\* when the open fails the write fails too and the file stays as it was.
write_config(m, f, open_ok) ==
    IF open_ok THEN FileOf(ConfigText(m)) ELSE f

\* stream_read_line: the characters up to and including the next line feed,
\* or up to the end of the data.
RECURSIVE LineLength(_)
LineLength(data) ==
    IF data = <<>> THEN 0
    ELSE IF Head(data) = LF THEN 1
    ELSE 1 + LineLength(Tail(data))

\* A read_config loop that leaves a field alone when its line holds no digit.
RECURSIVE ReadLines_keeps_default_on_text(_, _, _)
ReadLines_keeps_default_on_text(data, i, acc) ==
    IF i >= 3 \/ data = <<>> THEN acc
    ELSE LET n     == LineLength(data)
             line  == SubSeq(data, 1, n)
             value == atoi(line)
             rest  == SubSeq(data, n + 1, Len(data))
             next  == IF \A j \in 1..n : ~IsDigit(line[j]) THEN acc
                      ELSE CASE i = 0 -> [acc EXCEPT !.default_life = value]
                             [] i = 1 -> [acc EXCEPT !.backlight_on = (value # 0)]
                             [] OTHER -> [acc EXCEPT !.sound_on = (value # 0)]
         IN ReadLines_keeps_default_on_text(rest, i + 1, next)

\* The loop of read_config: line i is parsed into field i; the first line
\* that cannot be read (nothing left) ends the loop.
RECURSIVE ReadLines(_, _, _)
ReadLines(data, i, acc) ==
    IF i >= 3 \/ data = <<>> THEN acc
    ELSE LET n     == LineLength(data)
             value == atoi(SubSeq(data, 1, n))
             rest  == SubSeq(data, n + 1, Len(data))
             next  == CASE i = 0 -> [acc EXCEPT !.default_life = value]
                        [] i = 1 -> [acc EXCEPT !.backlight_on = (value # 0)]
                        [] OTHER -> [acc EXCEPT !.sound_on = (value # 0)]
         IN ReadLines(rest, i + 1, next)

ConfigDefaults == [default_life |-> 20, backlight_on |-> FALSE, sound_on |-> FALSE]

\* A read_config whose locals start zeroed instead of at 20, off, off.
read_config_zero_defaults(f, open_ok) ==
    LET zero == [default_life |-> 0, backlight_on |-> FALSE, sound_on |-> FALSE]
    IN IF f.exists /\ open_ok THEN ReadLines(f.data, 0, zero) ELSE zero

\* read_config: the three preference fields it leaves in the settings struct.
read_config(f, open_ok) ==
    IF f.exists /\ open_ok THEN ReadLines(f.data, 0, ConfigDefaults)
    ELSE ConfigDefaults

-----------------------------------------------------------------------------
(* Startup: app_alloc *)

Min(S) == CHOOSE x \in S : \A y \in S : x <= y

Max(S) == CHOOSE x \in S : \A y \in S : x >= y

ToUint8(i) == i % 256

\* find_index(a, size, value): the results the loop can give.  It compares
\* a[0] .. a[size-1]; the elements from Len(a) on lie outside the array, hold
\* whatever follows it in memory, and any of them may equal the value.
find_index(a, size, value) ==
    LET inside == {i \in 0..(Len(a) - 1) : i < size /\ a[i + 1] = value}
    IN IF inside # {} THEN {Min(inside)}
       ELSE {-1} \cup {i \in Len(a)..(size - 1) : TRUE}

\* default_life_values[index]: the values the read can give.
DefaultLifeAt(index) ==
    IF index < Len(default_life_values) THEN {default_life_values[index + 1]}
    ELSE StrayInts

NoTone == "none"

Report(op, consumed, redraws, tone) ==
    [op |-> op, consumed |-> consumed, redraws |-> redraws, tone |-> tone]

\* An app_alloc that starts both counters at 20 whatever was loaded.
AppAllocModels_lives_20(settings) ==
    { [default_life    |-> life,
       selected_player |-> 0,
       player_1_life   |-> 20,
       player_2_life   |-> 20,
       backlight_on    |-> settings.backlight_on,
       sound_on        |-> settings.sound_on] :
      life \in UNION { DefaultLifeAt(ToUint8(i)) :
                       i \in find_index(default_life_values,
                                        SizeofDefaultLifeValues,
                                        settings.default_life) } }

\* The view model app_alloc builds from the settings read_config returned:
\* every model it can build, one per result of find_index and of the table read.
AppAllocModels(settings) ==
    { [default_life    |-> life,
       selected_player |-> 0,
       player_1_life   |-> life,
       player_2_life   |-> life,
       backlight_on    |-> settings.backlight_on,
       sound_on        |-> settings.sound_on] :
      life \in UNION { DefaultLifeAt(ToUint8(i)) :
                       i \in find_index(default_life_values,
                                        SizeofDefaultLifeValues,
                                        settings.default_life) } }

\* An app_alloc that sends the automatic backlight whatever was loaded.
AppAllocBacklight_always_auto(settings) == "auto"

\* The backlight sequence app_alloc sends.
AppAllocBacklight(settings) == IF settings.backlight_on THEN "on" ELSE "auto"

\* Files the data directory may hold when the application is first started.
InitialFiles ==
    { NoFile,
      FileOf(<<>>),
      FileOf(<<"4", "0", LF>>),
      FileOf(<<"x", LF, "1", LF, "1", LF>>),
      FileOf(<<"7", LF, "0", LF, "1", LF>>),
      FileOf(<<"1", "0", "0", LF, "1", LF, "0", LF>>) }

Init ==
    \E f \in InitialFiles, open_ok \in BOOLEAN :
        LET settings == read_config(f, open_ok) IN
        /\ file = f
        /\ model \in AppAllocModels(settings)
        /\ backlight = AppAllocBacklight(settings)
        /\ alive = TRUE
        /\ view = "Splash"
        /\ timer = NULL
        /\ timers = {}
        /\ assert_failed = FALSE
        /\ queue = 0
        /\ toggles = 0
        /\ last = Report("app_alloc", FALSE, 0, NoTone)

\* lifecounter_app started again after the process ended.
lifecounter_app ==
    /\ ~alive
    /\ \E open_ok \in BOOLEAN :
        LET settings == read_config(file, open_ok) IN
        /\ model' \in AppAllocModels(settings)
        /\ backlight' = AppAllocBacklight(settings)
    /\ alive' = TRUE
    /\ view' = "Splash"
    /\ timer' = NULL
    /\ timers' = {}
    /\ assert_failed' = FALSE
    /\ queue' = 0
    /\ toggles' = 0
    /\ last' = Report("app_alloc", FALSE, 0, NoTone)
    /\ UNCHANGED file

\* view_dispatcher_run has returned: lifecounter_free, and the process ends.
lifecounter_free ==
    /\ alive
    /\ view = "None"
    /\ alive' = FALSE
    /\ backlight' = "auto"
    /\ last' = Report("lifecounter_free", FALSE, 0, NoTone)
    /\ UNCHANGED <<view, model, timer, timers, assert_failed, queue, file, toggles>>

-----------------------------------------------------------------------------
(* The redraw timer of the main view *)

view_main_enter_callback ==
    /\ assert_failed' = (assert_failed \/ timer # NULL)
    /\ LET t == IF timers = {} THEN 1 ELSE Max(timers) + 1 IN
        /\ timer' = t
        /\ timers' = timers \cup {t}

\* A view_main_exit_callback that forgets the timer without freeing it.
view_main_exit_callback_leaks ==
    /\ timers' = timers
    /\ timer' = NULL
    /\ UNCHANGED assert_failed

\* A view_main_exit_callback that frees the timer and leaves app->timer set.
view_main_exit_callback_keeps_handle ==
    /\ timers' = timers \ {timer}
    /\ timer' = timer
    /\ UNCHANGED assert_failed

view_main_exit_callback ==
    /\ timers' = timers \ {timer}
    /\ timer' = NULL
    /\ UNCHANGED assert_failed

\* view_main_timer_callback: the running timer sends the redraw event (from
\* the timer service, not from a handler of the dispatcher).
view_main_timer_callback ==
    /\ alive
    /\ view # "None"
    /\ timers # {}
    /\ queue < MaxQueue
    /\ queue' = queue + 1
    /\ UNCHANGED <<alive, view, model, timer, timers, assert_failed, file,
                   backlight, toggles, last>>

-----------------------------------------------------------------------------
(* Navigation *)

\* A navigation_exit_callback that names the menu itself.
navigation_exit_callback_stays == "Submenu"

navigation_exit_callback == "None"

navigation_submenu_callback == "Submenu"

navigation_main_callback == "Main"

\* An app_alloc that gives the settings list the splash view's previous callback.
view_previous_settings_to_main(v) ==
    CASE v = "Submenu"   -> navigation_exit_callback
      [] v = "Configure" -> navigation_main_callback
      [] v = "Main"      -> navigation_submenu_callback
      [] v = "Splash"    -> navigation_main_callback

\* An app_alloc that gives the main view the splash view's previous callback.
view_previous_main_stays(v) ==
    CASE v = "Submenu"   -> navigation_exit_callback
      [] v = "Configure" -> navigation_submenu_callback
      [] v = "Main"      -> navigation_main_callback
      [] v = "Splash"    -> navigation_main_callback

\* An app_alloc that gives the splash view navigation_exit_callback.
view_previous_splash_exits(v) ==
    CASE v = "Submenu"   -> navigation_exit_callback
      [] v = "Configure" -> navigation_submenu_callback
      [] v = "Main"      -> navigation_submenu_callback
      [] v = "Splash"    -> navigation_exit_callback

\* The previous callback app_alloc gives each view.
view_previous(v) ==
    CASE v = "Submenu"   -> navigation_exit_callback
      [] v = "Configure" -> navigation_submenu_callback
      [] v = "Main"      -> navigation_submenu_callback
      [] v = "Splash"    -> navigation_main_callback

\* view_dispatcher_switch_to_view with the enter and exit callbacks app_alloc
\* registers: only view_main has any.
view_dispatcher_switch_to_view(target) ==
    /\ view' = target
    /\ IF view = "Main" /\ target # "Main" THEN view_main_exit_callback
       ELSE IF view # "Main" /\ target = "Main" THEN view_main_enter_callback
       ELSE UNCHANGED <<timer, timers, assert_failed>>

\* What the dispatcher does with an input event its view did not consume.
IsBack(event) == event.key = "Back" /\ event.type \in {"Short", "Long"}

Running == alive /\ view # "None"

-----------------------------------------------------------------------------
(* Sound *)

\* An audio_feedback without the check of sound_on.
audio_feedback_ungated(m, sound) == sound

\* audio_feedback: the tone played, none with the sound switched off.
audio_feedback(m, sound) == IF ~m.sound_on THEN NoTone ELSE sound

-----------------------------------------------------------------------------
(* The splash view *)

\* A view_splash_input_callback that does not look at the event's type.
view_splash_input_callback_any_type(event) ==
    /\ Running
    /\ view = "Splash"
    /\ IF event.key = "Ok"
       THEN /\ view_dispatcher_switch_to_view("Main")
            /\ last' = Report("view_splash_input_callback", TRUE, 0, NoTone)
       ELSE /\ IF IsBack(event)
               THEN view_dispatcher_switch_to_view(view_previous("Splash"))
               ELSE UNCHANGED <<view, timer, timers, assert_failed>>
            /\ last' = Report("view_splash_input_callback", FALSE, 0, NoTone)
    /\ UNCHANGED <<alive, model, queue, file, backlight, toggles>>

\* view_splash_input_callback, then the dispatcher's handling of Back.
view_splash_input_callback(event) ==
    /\ Running
    /\ view = "Splash"
    /\ IF event.type = "Press" /\ event.key = "Ok"
       THEN /\ view_dispatcher_switch_to_view("Main")
            /\ last' = Report("view_splash_input_callback", TRUE, 0, NoTone)
       ELSE /\ IF IsBack(event)
               THEN view_dispatcher_switch_to_view(view_previous("Splash"))
               ELSE UNCHANGED <<view, timer, timers, assert_failed>>
            /\ last' = Report("view_splash_input_callback", FALSE, 0, NoTone)
    /\ UNCHANGED <<alive, model, queue, file, backlight, toggles>>

-----------------------------------------------------------------------------
(* The main view *)

\* A view_main_input_callback that switches the player on Left only.
MainInputModel_right_ignored(m, event) ==
    IF event.type # "Short" THEN m
    ELSE IF event.key = "Up" THEN
        IF m.selected_player = 0
        THEN [m EXCEPT !.player_1_life = @ + 1]
        ELSE [m EXCEPT !.player_2_life = @ + 1]
    ELSE IF event.key = "Down" THEN
        IF m.selected_player = 0
        THEN [m EXCEPT !.player_1_life = @ - 1]
        ELSE [m EXCEPT !.player_2_life = @ - 1]
    ELSE IF event.key = "Left" THEN
        IF m.selected_player = 0
        THEN [m EXCEPT !.selected_player = 1]
        ELSE [m EXCEPT !.selected_player = 0]
    ELSE m

\* A view_main_input_callback that does not count below zero.
MainInputModel_floor_zero(m, event) ==
    IF event.type # "Short" THEN m
    ELSE IF event.key = "Up" THEN
        IF m.selected_player = 0
        THEN [m EXCEPT !.player_1_life = @ + 1]
        ELSE [m EXCEPT !.player_2_life = @ + 1]
    ELSE IF event.key = "Down" THEN
        IF m.selected_player = 0
        THEN [m EXCEPT !.player_1_life = IF @ > 0 THEN @ - 1 ELSE @]
        ELSE [m EXCEPT !.player_2_life = IF @ > 0 THEN @ - 1 ELSE @]
    ELSE IF event.key = "Left" \/ event.key = "Right" THEN
        IF m.selected_player = 0
        THEN [m EXCEPT !.selected_player = 1]
        ELSE [m EXCEPT !.selected_player = 0]
    ELSE m

\* The model after view_main_input_callback has handled the event.
MainInputModel(m, event) ==
    IF event.type # "Short" THEN m
    ELSE IF event.key = "Up" THEN
        IF m.selected_player = 0
        THEN [m EXCEPT !.player_1_life = @ + 1]
        ELSE [m EXCEPT !.player_2_life = @ + 1]
    ELSE IF event.key = "Down" THEN
        IF m.selected_player = 0
        THEN [m EXCEPT !.player_1_life = @ - 1]
        ELSE [m EXCEPT !.player_2_life = @ - 1]
    ELSE IF event.key = "Left" \/ event.key = "Right" THEN
        IF m.selected_player = 0
        THEN [m EXCEPT !.selected_player = 1]
        ELSE [m EXCEPT !.selected_player = 0]
    ELSE m

\* The sound view_main_input_callback asks audio_feedback for.
MainInputTone(m, event) ==
    IF event.type # "Short" THEN NoTone
    ELSE IF event.key = "Up" \/ event.key = "Down"
         THEN audio_feedback(m, "SoundLifeChanged")
    ELSE IF event.key = "Left" \/ event.key = "Right"
         THEN audio_feedback(m, "SoundPlayerChanged")
    ELSE NoTone

Abs(i) == IF i < 0 THEN -i ELSE i

\* The counters the model follows: those within MaxDrift of a starting value.
InDrift(m) ==
    \E i \in 1..Len(default_life_values) :
        Abs(m.player_1_life - default_life_values[i])
            + Abs(m.player_2_life - default_life_values[i]) <= MaxDrift

IsSelectorKey(event) ==
    event.type = "Short" /\ event.key \in {"Left", "Right"}

\* A view_main_input_callback that redraws only when it changed the model.
view_main_input_callback_redraw_on_change(event) ==
    /\ Running
    /\ view = "Main"
    /\ IF event.type = "Press" /\ event.key = "Ok"
       THEN /\ view_dispatcher_switch_to_view("Submenu")
            /\ last' = Report("view_main_input_callback", TRUE, 0, NoTone)
            /\ UNCHANGED <<model, toggles>>
       ELSE /\ model' = MainInputModel(model, event)
            /\ model' = model \/ InDrift(model')
            /\ toggles' = IF IsSelectorKey(event) THEN (toggles + 1) % 2 ELSE toggles
            /\ last' = Report("view_main_input_callback", FALSE,
                              IF model' # model THEN 1 ELSE 0,
                              MainInputTone(model, event))
            /\ IF IsBack(event)
               THEN view_dispatcher_switch_to_view(view_previous("Main"))
               ELSE UNCHANGED <<view, timer, timers, assert_failed>>
    /\ UNCHANGED <<alive, queue, file, backlight>>

\* view_main_input_callback, then the dispatcher's handling of Back.
view_main_input_callback(event) ==
    /\ Running
    /\ view = "Main"
    /\ IF event.type = "Press" /\ event.key = "Ok"
       THEN /\ view_dispatcher_switch_to_view("Submenu")
            /\ last' = Report("view_main_input_callback", TRUE, 0, NoTone)
            /\ UNCHANGED <<model, toggles>>
       ELSE /\ model' = MainInputModel(model, event)
            /\ model' = model \/ InDrift(model')
            /\ toggles' = IF IsSelectorKey(event) THEN (toggles + 1) % 2 ELSE toggles
            /\ last' = Report("view_main_input_callback", FALSE, 1,
                              MainInputTone(model, event))
            /\ IF IsBack(event)
               THEN view_dispatcher_switch_to_view(view_previous("Main"))
               ELSE UNCHANGED <<view, timer, timers, assert_failed>>
    /\ UNCHANGED <<alive, queue, file, backlight>>

\* The dispatcher hands a queued custom event to the current view:
\* view_main_custom_event_callback redraws; the other views have no custom
\* callback and the event is dropped.
view_main_custom_event_callback ==
    /\ Running
    /\ queue > 0
    /\ queue' = queue - 1
    /\ last' = IF view = "Main"
               THEN Report("view_main_custom_event_callback", TRUE, 1, NoTone)
               ELSE Report("custom_event_dropped", FALSE, 0, NoTone)
    /\ UNCHANGED <<alive, view, model, timer, timers, assert_failed, file,
                   backlight, toggles>>

-----------------------------------------------------------------------------
(* The menu *)

LifecounterSubmenuIndexConfigure == 0

LifecounterSubmenuIndexMain == 1

LifecounterSubmenuIndexReset == 2

\* A submenu_callback that resets the first player only.
SubmenuModel_resets_one(m, index) ==
    IF index = LifecounterSubmenuIndexReset
    THEN [m EXCEPT !.player_1_life = m.default_life]
    ELSE m

\* The model after submenu_callback.
SubmenuModel(m, index) ==
    IF index = LifecounterSubmenuIndexReset
    THEN [m EXCEPT !.player_1_life = m.default_life,
                   !.player_2_life = m.default_life]
    ELSE m

\* The view submenu_callback switches to.
SubmenuTarget(index) ==
    CASE index = LifecounterSubmenuIndexConfigure -> "Configure"
      [] index = LifecounterSubmenuIndexMain      -> "Main"
      [] index = LifecounterSubmenuIndexReset     -> "Main"

\* submenu_callback: the menu item with this index was chosen.
submenu_callback(index) ==
    /\ Running
    /\ view = "Submenu"
    /\ model' = SubmenuModel(model, index)
    /\ view_dispatcher_switch_to_view(SubmenuTarget(index))
    /\ last' = Report("submenu_callback", TRUE, 0,
                      IF index = LifecounterSubmenuIndexReset
                      THEN audio_feedback(model, "SoundReset") ELSE NoTone)
    /\ UNCHANGED <<alive, queue, file, backlight, toggles>>

\* Back on the menu or on the settings list: neither module consumes it, and
\* the dispatcher switches to what the view's previous callback returns.
navigation_back ==
    /\ Running
    /\ view \in {"Submenu", "Configure"}
    /\ view_dispatcher_switch_to_view(view_previous(view))
    /\ last' = Report("navigation_back", FALSE, 0, NoTone)
    /\ UNCHANGED <<alive, model, queue, file, backlight, toggles>>

-----------------------------------------------------------------------------
(* The settings list *)

\* A default_life_change that also sets both counters to the new value.
default_life_change_resets(index) ==
    /\ Running
    /\ view = "Configure"
    /\ default_life_values[index + 1] # model.default_life
    /\ model' = [model EXCEPT !.default_life = default_life_values[index + 1],
                              !.player_1_life = default_life_values[index + 1],
                              !.player_2_life = default_life_values[index + 1]]
    /\ last' = Report("default_life_change", TRUE, 0, NoTone)
    /\ UNCHANGED <<alive, view, timer, timers, assert_failed, queue, file,
                   backlight, toggles>>

\* default_life_change: the list moved the "Starting life" item to this index.
default_life_change(index) ==
    /\ Running
    /\ view = "Configure"
    /\ default_life_values[index + 1] # model.default_life
    /\ model' = [model EXCEPT !.default_life = default_life_values[index + 1]]
    /\ last' = Report("default_life_change", TRUE, 0, NoTone)
    /\ UNCHANGED <<alive, view, timer, timers, assert_failed, queue, file,
                   backlight, toggles>>

\* backlight_change: the list moved the "Backlight" item to this index.
backlight_change(index) ==
    /\ Running
    /\ view = "Configure"
    /\ index # BoolToInt(model.backlight_on)
    /\ backlight' = IF index = 0 THEN "auto" ELSE "on"
    /\ model' = [model EXCEPT !.backlight_on = (index # 0)]
    /\ last' = Report("backlight_change", TRUE, 0, NoTone)
    /\ UNCHANGED <<alive, view, timer, timers, assert_failed, queue, file,
                   toggles>>

\* audio_change: the list moved the "Audio feedback" item to this index.
audio_change(index) ==
    /\ Running
    /\ view = "Configure"
    /\ index # BoolToInt(model.sound_on)
    /\ model' = [model EXCEPT !.sound_on = (index # 0)]
    /\ last' = Report("audio_change", TRUE, 0, NoTone)
    /\ UNCHANGED <<alive, view, timer, timers, assert_failed, queue, file,
                   backlight, toggles>>

\* setting_item_clicked: Ok on the item with this index; the storage may
\* refuse to open the file.
setting_item_clicked(index, open_ok) ==
    /\ Running
    /\ view = "Configure"
    /\ IF index = 3
       THEN /\ file' = write_config(model, file, open_ok)
            /\ view_dispatcher_switch_to_view("Submenu")
            /\ last' = Report("setting_item_clicked", TRUE, 0,
                              audio_feedback(model, "SoundLifeChanged"))
       ELSE /\ last' = Report("setting_item_clicked", FALSE, 0, NoTone)
            /\ UNCHANGED <<file, view, timer, timers, assert_failed>>
    /\ UNCHANGED <<alive, model, queue, backlight, toggles>>

-----------------------------------------------------------------------------
(* The program *)

\* Input events that only navigate on the main view.
NavigationEvents == {e \in InputEvent : e.key \in {"Ok", "Back"}}

Navigate ==
    \/ \E event \in InputEvent : view_splash_input_callback(event)
    \/ \E index \in 0..2 : submenu_callback(index)
    \/ navigation_back
    \/ lifecounter_free
    \/ lifecounter_app

Configure ==
    \/ \E index \in 0..(Len(default_life_values) - 1) : default_life_change(index)
    \/ \E index \in 0..(Len(toggle_state_values) - 1) : backlight_change(index)
    \/ \E index \in 0..(Len(toggle_state_values) - 1) : audio_change(index)

Redraw ==
    \/ view_main_timer_callback
    \/ view_main_custom_event_callback

\* The whole program with every input and every answer of the storage.
Next ==
    \/ Navigate
    \/ Configure
    \/ Redraw
    \/ \E event \in InputEvent : view_main_input_callback(event)
    \/ \E index \in 0..3, open_ok \in BOOLEAN : setting_item_clicked(index, open_ok)

Spec == Init /\ [][Next]_vars

\* The whole program on a storage that lets no file be opened for writing:
\* the configuration file stays the one found at the first start.
NextSession ==
    \/ Navigate
    \/ Configure
    \/ Redraw
    \/ \E event \in InputEvent : view_main_input_callback(event)
    \/ \E index \in 0..3 : setting_item_clicked(index, FALSE)

SpecSession == Init /\ [][NextSession]_vars

\* The whole program with a user who only passes through the main view: no
\* counter is stepped, and the timer is stopped before its first period ends.
NextConfig ==
    \/ Navigate
    \/ Configure
    \/ \E event \in NavigationEvents : view_main_input_callback(event)
    \/ \E index \in 0..3, open_ok \in BOOLEAN : setting_item_clicked(index, open_ok)

SpecConfig == Init /\ [][NextConfig]_vars

\* Characters of the texts: digits, a letter and the line feed.
FileChars == {"0", "1", "4", "x", LF}

\* The texts of at most n characters.
Texts(n) == {<<>>} \cup UNION {[1..k -> FileChars] : k \in 1..n}

\* app_alloc on a data directory that holds no file or any short text.
InitLoad ==
    \E f \in {NoFile} \cup {FileOf(data) : data \in Texts(MaxFileLen)},
       open_ok \in BOOLEAN :
        LET settings == read_config(f, open_ok) IN
        /\ file = f
        /\ model \in AppAllocModels(settings)
        /\ backlight = AppAllocBacklight(settings)
        /\ alive = TRUE
        /\ view = "Splash"
        /\ timer = NULL
        /\ timers = {}
        /\ assert_failed = FALSE
        /\ queue = 0
        /\ toggles = 0
        /\ last = Report("app_alloc", FALSE, 0, NoTone)

\* The program started on any short text, with a user who only walks through
\* the views, leaves and starts the application again.
NextLoad ==
    \/ Navigate
    \/ \E event \in NavigationEvents : view_main_input_callback(event)

SpecLoad == InitLoad /\ [][NextLoad]_vars

-----------------------------------------------------------------------------
(* Properties *)

\* The preference fields of a model.
Prefs(m) ==
    [default_life |-> m.default_life,
     backlight_on |-> m.backlight_on,
     sound_on     |-> m.sound_on]

LifeSet == {default_life_values[i] : i \in 1..Len(default_life_values)}

Views == {"Splash", "Submenu", "Configure", "Main"}

\* C1 (timer scoping): at most one redraw timer exists; one exists, and
\* app->timer holds it, exactly while the main view is current; and the
\* furi_assert(app->timer == NULL) of view_main_enter_callback never fails.
C1_TimerScoping ==
    /\ Cardinality(timers) <= 1
    /\ (view = "Main") <=> (timers # {})
    /\ IF view = "Main" THEN timers = {timer} ELSE timer = NULL
    /\ ~assert_failed

\* The main view entered again, from the menu, after it was left.
C1_Witness ==
    /\ view = "Main"
    /\ last.op = "submenu_callback"
    /\ timers = {timer}
    /\ timer # NULL

\* C2 (round trip): when the save entry is activated and the file opens,
\* read_config on the file write_config left returns the default life, the
\* backlight flag and the sound flag of the model that was saved.
C2_RoundTrip ==
    [][setting_item_clicked(3, TRUE) => read_config(file', TRUE) = Prefs(model)]_vars

\* Saved and read back: starting life 100, backlight off, sound on.
C2_Witness ==
    /\ last.op = "setting_item_clicked"
    /\ last.consumed
    /\ view = "Submenu"
    /\ file = FileOf(ConfigText(model))
    /\ Prefs(model) = [default_life |-> 100, backlight_on |-> FALSE, sound_on |-> TRUE]
    /\ read_config(file, TRUE) = Prefs(model)

\* The lines stream_read_line finds in the data.
RECURSIVE CountLines(_)
CountLines(data) ==
    IF data = <<>> THEN 0
    ELSE 1 + CountLines(SubSeq(data, LineLength(data) + 1, Len(data)))

EmptyStore(f) == ~f.exists \/ f.data = <<>>

NonNumeric(data) ==
    \E i \in 1..Len(data) : ~IsDigit(data[i]) /\ data[i] \notin {LF, "-"}

CorruptStore(f) ==
    f.exists /\ f.data # <<>> /\ (CountLines(f.data) < 3 \/ NonNumeric(f.data))

\* C3 as claimed (load fallback): started on an empty or a corrupt store
\* (truncated, or with non-numeric content), the application holds the
\* default record 20, off, off.
C3_Original ==
    (last.op = "app_alloc" /\ (EmptyStore(file) \/ CorruptStore(file)))
        => Prefs(model) = ConfigDefaults

\* C3 as amended (load fallback): read_config always returns a record; with
\* no file, a file that does not open or a file with no lines it is 20, off,
\* off, and the application starts with it; with fewer than three lines the
\* fields of the missing lines are the defaults.
C3_LoadFallback ==
    /\ \A ok \in BOOLEAN :
        LET r == read_config(file, ok)
            n == IF file.exists /\ ok THEN CountLines(file.data) ELSE 0
        IN /\ r.default_life \in Int
           /\ r.backlight_on \in BOOLEAN
           /\ r.sound_on \in BOOLEAN
           /\ n = 0 => r = ConfigDefaults
           /\ n < 2 => r.backlight_on = FALSE
           /\ n < 3 => r.sound_on = FALSE
    /\ (last.op = "app_alloc" /\ EmptyStore(file)) => Prefs(model) = ConfigDefaults

\* Started on a file of one line, "40": 40 is loaded, the flags are the defaults.
C3_Witness ==
    /\ last.op = "app_alloc"
    /\ file = FileOf(<<"4", "0", LF>>)
    /\ Prefs(model) = [default_life |-> 40, backlight_on |-> FALSE, sound_on |-> FALSE]

\* C4 (reset): whatever the counters and the preferences in memory are,
\* choosing "Reset lifes" in the menu sets both counters to the model's
\* default_life, leaves the preferences alone and makes the main view current.
C4_Reset ==
    [][submenu_callback(LifecounterSubmenuIndexReset) =>
          /\ model'.player_1_life = model.default_life
          /\ model'.player_2_life = model.default_life
          /\ Prefs(model') = Prefs(model)
          /\ model'.selected_player = model.selected_player
          /\ view' = "Main"]_vars

\* A reset (its tone was played) to a starting life of 100 that was set in
\* the settings and is not the one in the file.
C4_Witness ==
    /\ last = Report("submenu_callback", TRUE, 0, "SoundReset")
    /\ view = "Main"
    /\ model.default_life = 100
    /\ model.player_1_life = 100
    /\ model.player_2_life = 100
    /\ read_config(file, TRUE).default_life # 100

\* C5 (selector parity): the selected player is the first one after an even
\* number of Left/Right short presses on the main view since the start and
\* the second one after an odd number, whatever else was done in between;
\* Left and Right both switch the player and change neither counter.
C5_SelectorParity ==
    /\ [](model.selected_player = toggles)
    /\ [][\A e \in {ev \in InputEvent : IsSelectorKey(ev)} :
            view_main_input_callback(e) =>
                /\ model'.selected_player = 1 - model.selected_player
                /\ model'.player_1_life = model.player_1_life
                /\ model'.player_2_life = model.player_2_life]_vars

\* The second player is selected, after an odd number of presses, and the
\* settings list is open.
C5_Witness ==
    /\ model.selected_player = 1
    /\ toggles = 1
    /\ view = "Configure"

\* C6 (increment, decrement): a short Up on the main view adds exactly 1 to
\* the selected player's counter and a short Down takes exactly 1 from it,
\* at zero and below as anywhere else; the other counter, the selection and
\* the preferences stay as they were.
C6_UpDown ==
    [][\A e \in [type : {"Short"}, key : {"Up", "Down"}] :
          view_main_input_callback(e) =>
              LET d == IF e.key = "Up" THEN 1 ELSE -1 IN
              /\ IF model.selected_player = 0
                 THEN /\ model'.player_1_life = model.player_1_life + d
                      /\ model'.player_2_life = model.player_2_life
                 ELSE /\ model'.player_2_life = model.player_2_life + d
                      /\ model'.player_1_life = model.player_1_life
              /\ model'.selected_player = model.selected_player
              /\ Prefs(model') = Prefs(model)]_vars

\* The second player counted down from 0 to -1; the first stayed at 0.
C6_Witness ==
    /\ last.op = "view_main_input_callback"
    /\ view = "Main"
    /\ model.selected_player = 1
    /\ model.player_2_life = -1
    /\ model.player_1_life = 0

\* C7 as claimed (starting value): in every state the model's default_life
\* is one of 0, 10, 20, 40, 100.
C7_DefaultLifeInSet == model.default_life \in LifeSet

\* C8 (startup state): right after app_alloc the splash view is current, the
\* first player is selected and both counters equal the model's default_life,
\* which is the loaded starting value when that is one of the table, with the
\* loaded flags; with no file both counters are 20.
C8_StartupState ==
    last.op = "app_alloc" =>
        /\ view = "Splash"
        /\ model.selected_player = 0
        /\ model.player_1_life = model.default_life
        /\ model.player_2_life = model.default_life
        /\ \E ok \in BOOLEAN :
            LET r == read_config(file, ok) IN
            /\ r.default_life \in LifeSet => model.default_life = r.default_life
            /\ model.backlight_on = r.backlight_on
            /\ model.sound_on = r.sound_on
        /\ ~file.exists => (model.player_1_life = 20 /\ model.player_2_life = 20)

\* Started on a file saying 100, backlight on, sound off.
C8_Witness ==
    /\ last.op = "app_alloc"
    /\ view = "Splash"
    /\ file = FileOf(<<"1", "0", "0", LF, "1", LF, "0", LF>>)
    /\ model.player_1_life = 100
    /\ model.player_2_life = 100
    /\ model.selected_player = 0
    /\ model.backlight_on

\* C9 (navigation): one view is current at a time; while the application
\* runs the splash view is never switched to; the settings list is only
\* switched to from the menu, the main view from the menu or from the splash
\* view (the first switch of the run), the menu from the settings list or
\* the main view.
C9_Navigation ==
    /\ [](view \in Views \cup {"None"})
    /\ [][(alive /\ view' # view) =>
            /\ view' # "Splash"
            /\ view' = "Configure" => view = "Submenu"
            /\ view' = "Main" => view \in {"Submenu", "Splash"}
            /\ view' = "Submenu" => view \in {"Configure", "Main"}
            /\ view = "Splash" =>
                 last.op \in {"app_alloc", "view_splash_input_callback"}]_vars

\* Back on the settings list has brought the menu back.
C9_Witness ==
    /\ view = "Submenu"
    /\ last.op = "navigation_back"

\* C10 (back targets): Back on the menu stops the dispatcher with no view
\* current; Back on the settings list and Back on the main view make the
\* menu current.
C10_BackTargets ==
    [][/\ (navigation_back /\ view = "Submenu") => (view' = "None" /\ ~Running')
       /\ (navigation_back /\ view = "Configure") => view' = "Submenu"
       /\ \A e \in {ev \in InputEvent : IsBack(ev)} :
            view_main_input_callback(e) => view' = "Submenu"]_vars

\* Back on the menu: the dispatcher has stopped, the application is about to end.
C10_Witness ==
    /\ alive
    /\ view = "None"
    /\ last.op = "navigation_back"

\* Back as the dispatcher acts on it, and the other events of the Back key.
BackEvents == {ev \in InputEvent : IsBack(ev)}

\* C11 as claimed (Back on the splash view): Back on the splash view ends
\* the application; no view is current after it.
C11_Original ==
    [][\A e \in BackEvents : view_splash_input_callback(e) => view' = "None"]_vars

\* C11 as amended (Back on the splash view): a short or long Back on the
\* splash view is not consumed by the view and makes the main view current,
\* with its timer started; the application keeps running and the model is
\* unchanged.
C11_SplashBack ==
    [][\A e \in BackEvents :
          view_splash_input_callback(e) =>
              /\ view' = "Main"
              /\ Running'
              /\ timers' = {timer'}
              /\ timer' # NULL
              /\ ~last'.consumed
              /\ model' = model]_vars

\* The main view reached from the splash view by an event it did not consume.
C11_Witness ==
    /\ view = "Main"
    /\ last = Report("view_splash_input_callback", FALSE, 0, NoTone)
    /\ timers = {timer}

\* The events of Up, Down, Left and Right, and the events of Ok that are not
\* its press.
SplashOtherEvents ==
    {ev \in InputEvent :
        \/ ev.key \in {"Up", "Down", "Left", "Right"}
        \/ (ev.key = "Ok" /\ ev.type # "Press")}

\* C12 (splash input): on the splash view the press of Ok is consumed and
\* makes the main view current with its timer started; every event of Up,
\* Down, Left and Right and every other event of Ok is not consumed, leaves
\* the splash view current and changes nothing of the model, the timer, the
\* file or the backlight.
C12_SplashInput ==
    [][/\ view_splash_input_callback([type |-> "Press", key |-> "Ok"]) =>
            /\ view' = "Main"
            /\ last'.consumed
            /\ timer' # NULL
            /\ timers' = {timer'}
            /\ model' = model
       /\ \A e \in SplashOtherEvents :
            view_splash_input_callback(e) =>
                /\ ~last'.consumed
                /\ view' = "Splash"
                /\ UNCHANGED <<alive, model, timer, timers, queue, file,
                               backlight, toggles>>]_vars

\* An event the splash view ignored: it is still current, no timer runs.
C12_Witness ==
    /\ view = "Splash"
    /\ last = Report("view_splash_input_callback", FALSE, 0, NoTone)
    /\ timers = {}

\* The counters and the selected player of a model.
Counters(m) == <<m.player_1_life, m.player_2_life, m.selected_player>>

\* C13 (settings edits): moving the starting life, the backlight or the
\* audio item of the settings list sets that field of the model at once and
\* leaves the two other preference fields, both counters, the selected
\* player and the configuration file as they were.
C13_LiveEdits ==
    [][/\ \A i \in 0..(Len(default_life_values) - 1) :
            default_life_change(i) =>
                /\ model'.default_life = default_life_values[i + 1]
                /\ model'.backlight_on = model.backlight_on
                /\ model'.sound_on = model.sound_on
                /\ Counters(model') = Counters(model)
                /\ file' = file
       /\ \A i \in 0..(Len(toggle_state_values) - 1) :
            backlight_change(i) =>
                /\ model'.backlight_on = (toggle_state_values[i + 1] = 1)
                /\ model'.default_life = model.default_life
                /\ model'.sound_on = model.sound_on
                /\ Counters(model') = Counters(model)
                /\ file' = file
       /\ \A i \in 0..(Len(toggle_state_values) - 1) :
            audio_change(i) =>
                /\ model'.sound_on = (toggle_state_values[i + 1] = 1)
                /\ model'.default_life = model.default_life
                /\ model'.backlight_on = model.backlight_on
                /\ Counters(model') = Counters(model)
                /\ file' = file]_vars

\* The starting life was just set to 100 in the settings list; the counters
\* and the file still hold another value.
C13_Witness ==
    /\ view = "Configure"
    /\ last.op = "default_life_change"
    /\ model.default_life = 100
    /\ model.player_1_life # 100
    /\ model.player_2_life # 100
    /\ read_config(file, TRUE).default_life # 100

C15_Save ==
    [][/\ setting_item_clicked(3, TRUE) =>
            /\ file' = FileOf(PrintD(model.default_life) \o <<LF>>
                              \o PrintD(BoolToInt(model.backlight_on)) \o <<LF>>
                              \o PrintD(BoolToInt(model.sound_on)) \o <<LF>>)
            /\ CountLines(file'.data) = 3
            /\ view' = "Submenu"
            /\ last'.consumed
            /\ model' = model
       /\ \A i \in 0..2, ok \in BOOLEAN :
            setting_item_clicked(i, ok) =>
                /\ file' = file
                /\ view' = "Configure"
                /\ ~last'.consumed
                /\ model' = model]_vars

\* Saved with starting life 0 and both flags on: the file is those three
\* lines, the menu is current.
C15_Witness ==
    /\ last.op = "setting_item_clicked"
    /\ last.consumed
    /\ view = "Submenu"
    /\ Prefs(model) = [default_life |-> 0, backlight_on |-> TRUE, sound_on |-> TRUE]
    /\ file = FileOf(<<"0", LF, "1", LF, "1", LF>>)

\* C16 (storage failure): when the file does not open for the save, the
\* handler still ends with the menu current and the application running,
\* the model is unchanged and the file is what it was, so a later
\* read_config returns what it would have returned before; when the file
\* does not open for the load, read_config returns 20, off, off and the
\* application starts with them and both counters at 20.
C16_StoreFailure ==
    /\ [](/\ read_config(file, FALSE) = ConfigDefaults
          /\ \A m \in AppAllocModels(read_config(file, FALSE)) :
                /\ Prefs(m) = ConfigDefaults
                /\ m.player_1_life = 20
                /\ m.player_2_life = 20)
    /\ [][setting_item_clicked(3, FALSE) =>
            /\ view' = "Submenu"
            /\ Running'
            /\ last'.consumed
            /\ model' = model
            /\ file' = file
            /\ \A ok \in BOOLEAN : read_config(file', ok) = read_config(file, ok)]_vars

\* A save that failed: the menu is current and the file does not hold the
\* preferences in memory.
C16_Witness ==
    /\ last.op = "setting_item_clicked"
    /\ last.consumed
    /\ view = "Submenu"
    /\ alive
    /\ file.exists
    /\ read_config(file, TRUE) # Prefs(model)
    /\ model.default_life \in LifeSet

\* C17 as claimed (no redraw event after the stop): the dispatcher never
\* takes a redraw event of the timer from its queue while a view other than
\* the main view is current.
C17_NoStaleRedraw ==
    [][(alive /\ queue' < queue) => view = "Main"]_vars

\* The short presses of Up, Down, Left and Right.
DirectionPresses ==
    {ev \in InputEvent :
        ev.type = "Short" /\ ev.key \in {"Up", "Down", "Left", "Right"}}

\* C18 (redraw policy of the main view): for the press of Ok the handler
\* switches to the menu, returns true and commits no redraw; for every other
\* event it returns false and commits exactly one redraw, whether the model
\* changed or not; an event that is not a short press of Up, Down, Left or
\* Right changes neither counter nor the selected player.
C18_RedrawPolicy ==
    [][(view = "Main" /\ last'.op = "view_main_input_callback") =>
          /\ view_main_input_callback([type |-> "Press", key |-> "Ok"]) =>
                /\ view' = "Submenu"
                /\ last'.consumed
                /\ last'.redraws = 0
                /\ model' = model
          /\ ~view_main_input_callback([type |-> "Press", key |-> "Ok"]) =>
                /\ ~last'.consumed
                /\ last'.redraws = 1
          /\ Counters(model') # Counters(model) =>
                \A e \in InputEvent \ DirectionPresses :
                    ~view_main_input_callback(e)]_vars

\* With the sound on, an event of the main view that played no tone: not a
\* short press of a direction key, so nothing changed, and one redraw.
C18_Witness ==
    /\ view = "Main"
    /\ model.sound_on
    /\ last = Report("view_main_input_callback", FALSE, 1, NoTone)

\* C19 (audio gating): with sound_on false in the model no handler plays a
\* tone; with sound_on true a short Up or Down on the main view plays
\* SoundLifeChanged once, a short Left or Right SoundPlayerChanged once,
\* "Reset lifes" SoundReset once and the save item SoundLifeChanged once, and
\* no other handler plays a tone; the flag is the one in the model when the
\* handler runs, whatever the file says.
C19_AudioGating ==
    [][(last' # last \/ queue' <= queue) =>
          /\ ~model.sound_on => last'.tone = NoTone
          /\ (model.sound_on /\ view = "Main"
                /\ last'.op = "view_main_input_callback") =>
                /\ \A e \in DirectionPresses :
                      view_main_input_callback(e) =>
                          last'.tone = IF e.key \in {"Up", "Down"}
                                       THEN "SoundLifeChanged"
                                       ELSE "SoundPlayerChanged"
                /\ last'.tone # NoTone =>
                      \A e \in InputEvent \ DirectionPresses :
                          ~view_main_input_callback(e)
          /\ (model.sound_on /\ view = "Submenu"
                /\ last'.op = "submenu_callback") =>
                /\ submenu_callback(LifecounterSubmenuIndexReset) =>
                      last'.tone = "SoundReset"
                /\ \A i \in {LifecounterSubmenuIndexConfigure,
                             LifecounterSubmenuIndexMain} :
                      submenu_callback(i) => last'.tone = NoTone
          /\ (model.sound_on /\ view = "Configure"
                /\ last'.op = "setting_item_clicked") =>
                /\ \A ok \in BOOLEAN :
                      setting_item_clicked(3, ok) =>
                          last'.tone = "SoundLifeChanged"
                /\ \A i \in 0..2, ok \in BOOLEAN :
                      setting_item_clicked(i, ok) => last'.tone = NoTone
          /\ last'.op \notin {"view_main_input_callback", "submenu_callback",
                              "setting_item_clicked"} =>
                last'.tone = NoTone]_vars

\* The player was switched with the sound on in memory and off in the file:
\* the tone was played.
C19_Witness ==
    /\ view = "Main"
    /\ last = Report("view_main_input_callback", FALSE, 1, "SoundPlayerChanged")
    /\ model.sound_on
    /\ ~read_config(file, TRUE).sound_on

\* Line i (from 1) of the data as stream_read_line returns it, <<>> when the
\* data has fewer lines.
RECURSIVE NthLine(_, _)
NthLine(data, i) ==
    IF data = <<>> THEN <<>>
    ELSE IF i = 1 THEN SubSeq(data, 1, LineLength(data))
    ELSE NthLine(SubSeq(data, LineLength(data) + 1, Len(data)), i - 1)

HasNoDigit(line) == \A j \in 1..Len(line) : ~IsDigit(line[j])

\* C20 (per-field fallback): for a file of k lines that opens, read_config
\* returns a record whose first k fields (of three) are atoi of lines 1..k,
\* a flag being on for any value but 0, and whose other fields are the
\* defaults 20, off, off; a line without a digit gives 0 for the starting
\* life and off for a flag; and the application starts with the flags read.
C20_PerFieldFallback ==
    file.exists =>
        LET k  == CountLines(file.data)
            r  == read_config(file, TRUE)
            l1 == NthLine(file.data, 1)
            l2 == NthLine(file.data, 2)
            l3 == NthLine(file.data, 3)
        IN /\ r.default_life \in Int
           /\ r.backlight_on \in BOOLEAN
           /\ r.sound_on \in BOOLEAN
           /\ r.default_life = IF k >= 1 THEN atoi(l1) ELSE 20
           /\ r.backlight_on = IF k >= 2 THEN atoi(l2) # 0 ELSE FALSE
           /\ r.sound_on = IF k >= 3 THEN atoi(l3) # 0 ELSE FALSE
           /\ (k >= 1 /\ HasNoDigit(l1)) => r.default_life = 0
           /\ (k >= 2 /\ HasNoDigit(l2)) => ~r.backlight_on
           /\ (k >= 3 /\ HasNoDigit(l3)) => ~r.sound_on
           /\ last.op = "app_alloc" =>
                \E ok \in BOOLEAN :
                    /\ model.backlight_on = read_config(file, ok).backlight_on
                    /\ model.sound_on = read_config(file, ok).sound_on
                    /\ read_config(file, ok).default_life \in LifeSet =>
                         model.default_life = read_config(file, ok).default_life

\* Started on the two lines "x" and "1": starting life 0, backlight on, and
\* the sound at its default, off.
C20_Witness ==
    /\ last.op = "app_alloc"
    /\ file = FileOf(<<"x", LF, "1", LF>>)
    /\ Prefs(model) = [default_life |-> 0, backlight_on |-> TRUE, sound_on |-> FALSE]

\* C21 (backlight): from the end of app_alloc until lifecounter_free, the
\* last backlight sequence sent is "enforce on" exactly when backlight_on is
\* true in the model and "enforce auto" exactly when it is false, after the
\* start and after every change in the settings list, saved or not.
C21_BacklightConsistent ==
    alive => (backlight = IF model.backlight_on THEN "on" ELSE "auto")

\* The backlight was switched on in the settings list and not saved: the
\* file still says off.
C21_Witness ==
    /\ alive
    /\ last.op = "backlight_change"
    /\ model.backlight_on
    /\ backlight = "on"
    /\ file.exists
    /\ ~read_config(file, TRUE).backlight_on

\* C22 (no timer at exit): the dispatcher is only ever stopped from a view
\* other than the main view, with no timer allocated; and from then on,
\* through lifecounter_free, no timer exists and app->timer is NULL.
C22_NoTimerAtExit ==
    /\ []((view = "None" \/ ~alive) => (timers = {} /\ timer = NULL))
    /\ [][(alive /\ view # "None" /\ view' = "None") =>
            /\ view # "Main"
            /\ timers = {}
            /\ timers' = {}]_vars

\* The dispatcher has stopped after the main view was used (the second
\* player is selected): its timer is gone.
C22_Witness ==
    /\ alive
    /\ view = "None"
    /\ toggles = 1
    /\ model.selected_player = 1
    /\ timers = {}
    /\ timer = NULL

\* A short or long Back given to the current view.
GiveBack ==
    \/ navigation_back
    \/ \E e \in BackEvents : view_splash_input_callback(e)
    \/ \E e \in BackEvents : view_main_input_callback(e)

\* Back inputs still needed to stop the dispatcher.
BacksToExit(v) ==
    CASE v = "None"      -> 0
      [] v = "Submenu"   -> 1
      [] v = "Configure" -> 2
      [] v = "Main"      -> 2
      [] v = "Splash"    -> 3

\* C23 (exit is reachable): in every state of the running application,
\* whatever the view, the counters and the preferences, a Back input is
\* taken, and every Back input brings the stop of the dispatcher one input
\* nearer, from at most 3 away; once the dispatcher has stopped the
\* application ends.
C23_ExitReachable ==
    /\ [](Running => (BacksToExit(view) \in 1..3 /\ ENABLED GiveBack))
    /\ []((alive /\ view = "None") => ENABLED lifecounter_free)
    /\ [][GiveBack => BacksToExit(view') = BacksToExit(view) - 1]_vars

\* Back on the main view, which the view did not consume, has made the menu
\* current: one more Back stops the dispatcher.
C23_Witness ==
    /\ view = "Submenu"
    /\ last = Report("view_main_input_callback", FALSE, 1, NoTone)
    /\ timers = {}

=============================================================================
